---- MODULE Spec2Model ----
(***************************************************************************)
(* The client-side voice session machine of vocal-agent-fr-live: the React *)
(* client (examples/react-client/src/App.jsx) and the Flutter client       *)
(* (examples/flutter-client/lib/main.dart).  One of the two programs runs  *)
(* in a behaviour (variable client); both keep the same kind of state, so  *)
(* they share the variables, named after the React fields:                 *)
(*   isConnected ~ _isConnected, wsRef ~ _channel, sessionId ~ _sessionId, *)
(*   logs ~ _logs, textInput ~ _textController.text.                       *)
(* Every handler is one action: JavaScript and Dart run a handler to       *)
(* completion, and an async function is cut at its awaits.                 *)
(* Strings are sequences of one-character or token strings, so that        *)
(* template literals are concatenations and trim/slice compute.            *)
(***************************************************************************)
EXTENDS Naturals, Integers, Sequences, FiniteSets, TLC

VARIABLES
    client,            \* "react" | "flutter": which program runs
    mounted,           \* the component is mounted (not yet torn down)
    isConnected,       \* App.jsx:122, main.dart:60
    isRecording,       \* App.jsx:123
    sessionId,         \* App.jsx:124, main.dart:61
    logs,              \* App.jsx:125, main.dart:62
    textInput,         \* App.jsx:126, main.dart:63
    wsRef,             \* App.jsx:134, main.dart:59: 0 is null, else a socket index
    mediaRecorderRef,  \* App.jsx:135: 0 is null, else a capture graph index
    audioContextRef,   \* App.jsx:136: the playback context exists
    audioQueueRef,     \* App.jsx:137: frames pushed and not yet shifted
    sockets,           \* every connection object created so far
    connects,          \* every connect() invocation: its position
    micRequests,       \* startRecording() invocations awaiting getUserMedia
    graphs,            \* every capture graph created so far
    arrived,           \* binary frames delivered to onmessage, in arrival order
    started,           \* frames on which source.start() was called, in call order
    sounding,          \* started sources that have not finished playing
    wire,              \* frames handed to the network, in order
    sends,             \* <<component, readyState>> of every send() call made
    fault,             \* errors that left a handler uncaught
    lastOp,            \* the handler that ran last (teardown: and whether a
                       \* disconnect ran right before it)
    announced,         \* the sample_rate of the latest audio.start received
    sampleIn,          \* App.jsx:270: a sample float32[i] of a captured chunk
    scaled,            \* App.jsx:273: the number assigned to int16[i]
    pcm16,             \* App.jsx:275: the two bytes of int16[i] in int16.buffer
    sampleOut          \* App.jsx:239: float32[i] decoded from those bytes

vars == <<client, mounted, isConnected, isRecording, sessionId, logs, textInput,
          wsRef, mediaRecorderRef, audioContextRef, audioQueueRef, sockets,
          connects, micRequests, graphs, arrived, started, sounding, wire,
          sends, fault, lastOp, announced, sampleIn, scaled, pcm16, sampleOut>>

\* The samples of the audio codec, apart from the session.
codec == <<sampleIn, scaled, pcm16, sampleOut>>

\* ---------------------------------------------------------------- bounds
MaxConnects == 2
MaxLogs == 3
MaxFrames == 2
MaxGraphs == 2
MaxWire == 1
MaxLogEvents == 102
MaxInput == 32800

\* ---------------------------------------------------------------- constants
LogCap == 100
EncodeScale == 32767
DecodeScale == 32768
PlaybackRate == 24000

Null == 0
\* JavaScript undefined / Dart null where a string is expected.
Undefined == <<"undefined">>

\* ---------------------------------------------------------------- strings
Space == " "

\* String.prototype.trim / Dart String.trim: strip leading and trailing spaces.
RECURSIVE TrimLeft(_)
TrimLeft(s) ==
    IF s # <<>> /\ Head(s) = Space THEN TrimLeft(Tail(s)) ELSE s

RECURSIVE TrimRight(_)
TrimRight(s) ==
    IF s # <<>> /\ s[Len(s)] = Space THEN TrimRight(SubSeq(s, 1, Len(s) - 1)) ELSE s

Trim(s) == TrimRight(TrimLeft(s))

\* String.prototype.slice(0, n) / substring(0, n) on a string of at least n characters.
Slice(s, n) == SubSeq(s, 1, IF Len(s) < n THEN Len(s) ELSE n)

\* The texts the user can have in the input field.
TextInputs == { <<>>, <<Space>>, <<Space, "a", Space>> }

\* The session id the server issues for the i-th handshake (a UUID, abridged).
Digit(i) == CASE i = 1 -> "1" [] i = 2 -> "2" [] i = 3 -> "3" [] OTHER -> "4"
SessionIdOf(i) == <<"a", "1", "b", "2", "c", "3", "d", Digit(i), "-", "e">>

\* ---------------------------------------------------------------- event log
LastN(s, n) == IF Len(s) <= n THEN s ELSE SubSeq(s, Len(s) - n + 1, Len(s))

Entry(type, message) == [type |-> type, message |-> message]

\* addLog that puts the new entry first.
addLog_Prepending(l, type, message) ==
    IF mounted THEN <<Entry(type, message)>> \o LastN(l, LogCap) ELSE l

\* addLog, App.jsx:139-142: keep the last 100 entries, then append.
\* A state update of an unmounted component is dropped by React.
addLog(l, type, message) ==
    IF mounted THEN Append(LastN(l, LogCap), Entry(type, message)) ELSE l

\* _addLog, main.dart:193-201: append, then drop the oldest above 100.
_addLog(l, type, message) ==
    LET a == Append(l, Entry(type, message))
    IN  IF Len(a) > LogCap THEN Tail(a) ELSE a

\* Room for n more entries within the explored bound.
CanLog(n) == Len(logs) + n <= MaxLogs

\* React state setters: dropped once the component is unmounted.
SetState(cur, new) == IF mounted THEN new ELSE cur

\* ---------------------------------------------------------------- sockets
NewSocket(url, sid) ==
    [readyState |-> "CONNECTING", url |-> url, sid |-> sid, opened |-> FALSE,
     buffered |-> <<>>]

SocketIds == 1..Len(sockets)

SetReadyState(c, rs) == [sockets EXCEPT ![c].readyState = rs]

\* WebSocket.close(): a socket that is connecting or open starts closing;
\* a closing or closed one is left alone.
CloseSocket(ss, c) ==
    IF c = Null \/ ss[c].readyState \in {"CLOSING", "CLOSED"}
    THEN ss
    ELSE [ss EXCEPT ![c].readyState = "CLOSING"]

\* No sample: a fraction with denominator 0.
NoSample == [nan |-> FALSE, num |-> 0, den |-> 0]

\* The component right after its construction.
Fresh ==
    /\ mounted = TRUE
    /\ isConnected = FALSE
    /\ isRecording = FALSE
    /\ sessionId = <<>>
    /\ logs = <<>>
    /\ textInput = <<>>
    /\ wsRef = Null
    /\ mediaRecorderRef = Null
    /\ audioContextRef = FALSE
    /\ audioQueueRef = <<>>
    /\ sockets = <<>>
    /\ connects = <<>>
    /\ micRequests = 0
    /\ graphs = <<>>
    /\ arrived = <<>>
    /\ started = <<>>
    /\ sounding = {}
    /\ wire = <<>>
    /\ sends = {}
    /\ fault = {}
    /\ lastOp = "init"
    /\ announced = Null

Init ==
    /\ client \in {"react", "flutter"}
    /\ Fresh
    /\ sampleIn = NoSample /\ scaled = NoSample /\ pcm16 = <<>> /\ sampleOut = NoSample

\* ---------------------------------------------------------------- handshake
\* What POST /start-session can answer: status 0 stands for a network failure
\* (fetch rejects / http.post throws); body is what the response carries.
Statuses == {0, 200, 201, 500}
Bodies == {"session", "nosessionid", "malformed"}
Responses == [status : Statuses, body : Bodies]

StatusText(s) ==
    CASE s = 200 -> "200" [] s = 201 -> "201" [] s = 500 -> "500" [] OTHER -> "0"

\* Response.ok, App.jsx:158: a status in the range 200-299.
ResOk(status) == status >= 200 /\ status <= 299

\* The body the server sends for the i-th handshake.
SessionIdIn(i, body) == IF body = "session" THEN SessionIdOf(i) ELSE Undefined
WebsocketUrlIn(i) == <<"ws://host/ws/">> \o SessionIdOf(i)

\* ================================================================ React client
\* connect, App.jsx:145-156: the "Se connecter" button (shown while not
\* connected, App.jsx:346-369) starts the handshake request.
connect ==
    /\ client = "react" /\ mounted /\ ~isConnected
    /\ Len(connects) < MaxConnects
    /\ connects' = Append(connects, "fetch")
    /\ UNCHANGED <<announced, codec>>
    /\ lastOp' = "connect"
    /\ UNCHANGED <<client, mounted, isConnected, isRecording, sessionId, logs,
                   textInput, wsRef, mediaRecorderRef, audioContextRef,
                   audioQueueRef, sockets, micRequests, graphs, arrived,
                   started, sounding, wire, sends, fault>>

\* The reason connect's catch block logs, App.jsx:214-216; "" when nothing throws.
ConnectError(r) ==
    IF r.status = 0 THEN <<"Failed to fetch">>
    ELSE IF ~ResOk(r.status) THEN <<"HTTP ", StatusText(r.status)>>
    ELSE IF r.body = "malformed" THEN <<"Unexpected token">>
    ELSE <<>>

\* connectResumed that keeps the session id it already has, if any.
connectResumed_Resuming(i, r) ==
    /\ client = "react"
    /\ connects[i] = "fetch"
    /\ connects' = [connects EXCEPT ![i] = "done"]
    /\ UNCHANGED <<announced, codec>>
    /\ lastOp' = "connect.resumed"
    /\ IF ConnectError(r) # <<>>
       THEN /\ CanLog(1)
            /\ logs' = addLog(logs, "error", <<"Connexion echouee: ">> \o ConnectError(r))
            /\ UNCHANGED <<sessionId, sockets, wsRef>>
       ELSE LET sid == IF sessionId = <<>> THEN SessionIdIn(i, r.body) ELSE sessionId
            IN  /\ sessionId' = SetState(sessionId, sid)
                /\ sockets' = Append(sockets, NewSocket(WebsocketUrlIn(i), sid))
                /\ wsRef' = Len(sockets) + 1
                /\ UNCHANGED logs
    /\ UNCHANGED <<client, mounted, isConnected, isRecording, textInput,
                   mediaRecorderRef, audioContextRef, audioQueueRef,
                   micRequests, graphs, arrived, started, sounding, wire,
                   sends, fault>>

\* connectResumed that asks again when the handshake has failed.
connectResumed_Retrying(i, r) ==
    /\ client = "react"
    /\ connects[i] = "fetch"
    /\ UNCHANGED <<announced, codec>>
    /\ lastOp' = "connect.resumed"
    /\ IF ConnectError(r) # <<>>
       THEN /\ CanLog(1)
            /\ connects' = Append([connects EXCEPT ![i] = "done"], "fetch")
            /\ logs' = addLog(logs, "error", <<"Connexion echouee: ">> \o ConnectError(r))
            /\ UNCHANGED <<sessionId, sockets, wsRef>>
       ELSE /\ connects' = [connects EXCEPT ![i] = "done"]
            /\ sessionId' = SetState(sessionId, SessionIdIn(i, r.body))
            /\ sockets' = Append(sockets, NewSocket(WebsocketUrlIn(i), SessionIdIn(i, r.body)))
            /\ wsRef' = Len(sockets) + 1
            /\ UNCHANGED logs
    /\ UNCHANGED <<client, mounted, isConnected, isRecording, textInput,
                   mediaRecorderRef, audioContextRef, audioQueueRef,
                   micRequests, graphs, arrived, started, sounding, wire,
                   sends, fault>>

\* connect resumed after its awaits, App.jsx:158-216: a failed handshake is
\* logged by the catch block; otherwise the session id is stored, the socket
\* is created with its handlers and kept in wsRef.
connectResumed(i, r) ==
    /\ client = "react"
    /\ connects[i] = "fetch"
    /\ connects' = [connects EXCEPT ![i] = "done"]
    /\ UNCHANGED <<announced, codec>>
    /\ lastOp' = "connect.resumed"
    /\ IF ConnectError(r) # <<>>
       THEN /\ CanLog(1)
            /\ logs' = addLog(logs, "error", <<"Connexion echouee: ">> \o ConnectError(r))
            /\ UNCHANGED <<sessionId, sockets, wsRef>>
       ELSE /\ sessionId' = SetState(sessionId, SessionIdIn(i, r.body))
            /\ sockets' = Append(sockets, NewSocket(WebsocketUrlIn(i), SessionIdIn(i, r.body)))
            /\ wsRef' = Len(sockets) + 1
            /\ UNCHANGED logs
    /\ UNCHANGED <<client, mounted, isConnected, isRecording, textInput,
                   mediaRecorderRef, audioContextRef, audioQueueRef,
                   micRequests, graphs, arrived, started, sounding, wire,
                   sends, fault>>

\* wsOnOpen without its addLog call.
wsOnOpen_Silent(c) ==
    /\ client = "react"
    /\ sockets[c].readyState = "CONNECTING"
    /\ sockets' = [sockets EXCEPT ![c].readyState = "OPEN", ![c].opened = TRUE]
    /\ isConnected' = SetState(isConnected, TRUE)
    /\ UNCHANGED <<announced, codec>>
    /\ lastOp' = "ws.onopen"
    /\ UNCHANGED <<client, mounted, isRecording, sessionId, textInput, wsRef,
                   mediaRecorderRef, audioContextRef, audioQueueRef, connects,
                   micRequests, graphs, arrived, started, sounding, wire, sends,
                   logs, fault>>

\* ws.onopen, App.jsx:166-169: the socket opens.  data.session_id.slice throws
\* a TypeError when the response carried no session_id.
wsOnOpen(c) ==
    /\ client = "react"
    /\ sockets[c].readyState = "CONNECTING"
    /\ CanLog(1)
    /\ sockets' = [sockets EXCEPT ![c].readyState = "OPEN", ![c].opened = TRUE]
    /\ isConnected' = SetState(isConnected, TRUE)
    /\ IF sockets[c].sid = Undefined
       THEN /\ fault' = fault \cup {"onopen: TypeError"}
            /\ UNCHANGED logs
       ELSE /\ logs' = addLog(logs, "system",
                             <<"Connecte - session: ">> \o Slice(sockets[c].sid, 8) \o <<"...">>)
            /\ UNCHANGED fault
    /\ UNCHANGED <<announced, codec>>
    /\ lastOp' = "ws.onopen"
    /\ UNCHANGED <<client, mounted, isRecording, sessionId, textInput, wsRef,
                   mediaRecorderRef, audioContextRef, audioQueueRef, connects,
                   micRequests, graphs, arrived, started, sounding, wire, sends>>

\* wsOnError without its addLog call.
wsOnError_Silent(l) == l

\* ws.onerror, App.jsx:208-211, as a function of the log.
wsOnError(l) == addLog(l, "error", <<"Erreur WebSocket">>)

\* ws.onclose, App.jsx:203-206, as a function of the log.
wsOnClose(l) == addLog(l, "system", <<"Deconnecte">>)

\* The connection ends: the peer closes it, the closing handshake completes, or
\* it fails.  A failure fires error then close in one task; a socket that never
\* opened always ends with the error event.
wsClosed(c, withError) ==
    /\ client = "react"
    /\ sockets[c].readyState # "CLOSED"
    /\ ~sockets[c].opened => withError
    /\ CanLog(IF withError THEN 2 ELSE 1)
    /\ sockets' = SetReadyState(c, "CLOSED")
    /\ isConnected' = SetState(isConnected, FALSE)
    /\ logs' = wsOnClose(IF withError THEN wsOnError(logs) ELSE logs)
    /\ UNCHANGED <<announced, codec>>
    /\ lastOp' = IF withError THEN "ws.onerror+onclose" ELSE "ws.onclose"
    /\ UNCHANGED <<client, mounted, isRecording, sessionId, textInput, wsRef,
                   mediaRecorderRef, audioContextRef, audioQueueRef, connects,
                   micRequests, graphs, arrived, started, sounding, wire,
                   sends, fault>>

\* disconnect that logs the disconnection itself as well.
disconnect_Logging ==
    /\ client = "react" /\ mounted /\ isConnected
    /\ CanLog(1)
    /\ sockets' = CloseSocket(sockets, wsRef)
    /\ wsRef' = Null
    /\ isConnected' = SetState(isConnected, FALSE)
    /\ logs' = addLog(logs, "system", <<"Deconnecte">>)
    /\ UNCHANGED <<announced, codec>>
    /\ lastOp' = "disconnect"
    /\ UNCHANGED <<client, mounted, isRecording, sessionId, textInput,
                   mediaRecorderRef, audioContextRef, audioQueueRef, connects,
                   micRequests, graphs, arrived, started, sounding, wire,
                   sends, fault>>

\* disconnect, App.jsx:219-223, from the "Deconnecter" button (shown while
\* connected, App.jsx:374-397).
disconnect ==
    /\ client = "react" /\ mounted /\ isConnected
    /\ sockets' = CloseSocket(sockets, wsRef)
    /\ wsRef' = Null
    /\ isConnected' = SetState(isConnected, FALSE)
    /\ UNCHANGED <<announced, codec>>
    /\ lastOp' = "disconnect"
    /\ UNCHANGED <<client, mounted, isRecording, sessionId, logs, textInput,
                   mediaRecorderRef, audioContextRef, audioQueueRef, connects,
                   micRequests, graphs, arrived, started, sounding, wire,
                   sends, fault>>

\* ---------------------------------------------------------------- inbound frames
\* The control message types the dispatcher names, App.jsx:179-196, and two
\* it does not name.
RecognizedTypes == {"session.created", "transcription", "response.text",
                    "audio.start", "audio.end", "error"}
OtherTypes == {"response.start", "ping"}

\* A textual frame: a JSON object with a type, or text that is not JSON.
ControlMessages ==
    [json : {TRUE}, type : RecognizedTypes \cup OtherTypes,
     text : {<<"h", "i">>}, message : {<<"k", "o">>}, sample_rate : {Null}]
NotJson == [json |-> FALSE, type |-> "", text |-> <<>>, message |-> <<>>,
            sample_rate |-> Null]
TextFrames == ControlMessages \cup {NotJson}

\* audio.start messages that carry a sample_rate (main.dart:693-698).
SampleRates == {16000, 24000}
AudioStarts ==
    [json : {TRUE}, type : {"audio.start"}, text : {<<"h", "i">>},
     message : {<<"k", "o">>}, sample_rate : SampleRates]

\* The rate announced once msg is received, cur being the one before.
Announce(msg, cur) ==
    IF msg.json /\ msg.type = "audio.start" /\ msg.sample_rate # Null
    THEN msg.sample_rate ELSE cur

\* Dispatch with the transcription and response.text cases exchanged.
Dispatch_Swapped(msg) ==
    CASE msg.type = "session.created" -> Entry("system", <<"Session prete">>)
      [] msg.type = "transcription"   -> Entry("agent", <<"(agent) ">> \o msg.text)
      [] msg.type = "response.text"   -> Entry("user", <<"(voix) ">> \o msg.text)
      [] msg.type = "audio.start"     -> Entry("audio", <<"Audio en cours...">>)
      [] msg.type = "audio.end"       -> Entry("audio", <<"Audio termine">>)
      [] msg.type = "error"           -> Entry("error", <<"(x) ">> \o msg.message)
      [] OTHER                        -> Entry("system", <<"[", msg.type, "]">>)

\* Dispatch whose default case logs a fixed text instead of the type.
Dispatch_BlindDefault(msg) ==
    CASE msg.type = "session.created" -> Entry("system", <<"Session prete">>)
      [] msg.type = "transcription"   -> Entry("user", <<"(voix) ">> \o msg.text)
      [] msg.type = "response.text"   -> Entry("agent", <<"(agent) ">> \o msg.text)
      [] msg.type = "audio.start"     -> Entry("audio", <<"Audio en cours...">>)
      [] msg.type = "audio.end"       -> Entry("audio", <<"Audio termine">>)
      [] msg.type = "error"           -> Entry("error", <<"(x) ">> \o msg.message)
      [] OTHER                        -> Entry("system", <<"[", "message", "]">>)

\* The switch on msg.type, App.jsx:178-199 and main.dart:151-174: the log
\* entry a control message produces.
Dispatch(msg) ==
    CASE msg.type = "session.created" -> Entry("system", <<"Session prete">>)
      [] msg.type = "transcription"   -> Entry("user", <<"(voix) ">> \o msg.text)
      [] msg.type = "response.text"   -> Entry("agent", <<"(agent) ">> \o msg.text)
      [] msg.type = "audio.start"     -> Entry("audio", <<"Audio en cours...">>)
      [] msg.type = "audio.end"       -> Entry("audio", <<"Audio termine">>)
      [] msg.type = "error"           -> Entry("error", <<"(x) ">> \o msg.message)
      [] OTHER                        -> Entry("system", <<"[", msg.type, "]">>)

\* wsOnMessageText that takes an error message as the end of the session.
wsOnMessageText_ErrorEnds(c, msg) ==
    /\ client = "react"
    /\ sockets[c].readyState = "OPEN"
    /\ IF msg.json
       THEN /\ CanLog(1)
            /\ logs' = addLog(logs, Dispatch(msg).type, Dispatch(msg).message)
            /\ UNCHANGED fault
       ELSE /\ fault' = fault \cup {"onmessage: SyntaxError"}
            /\ UNCHANGED logs
    /\ isConnected' = IF msg.type = "error" THEN SetState(isConnected, FALSE)
                                            ELSE isConnected
    /\ announced' = Announce(msg, announced)
    /\ UNCHANGED codec
    /\ lastOp' = "ws.onmessage.text"
    /\ UNCHANGED <<client, mounted, isRecording, sessionId,
                   textInput, wsRef, mediaRecorderRef, audioContextRef,
                   audioQueueRef, sockets, connects, micRequests, graphs,
                   arrived, started, sounding, wire, sends>>

\* ws.onmessage with a textual frame, App.jsx:176-200: JSON.parse throws a
\* SyntaxError on text that is not JSON, and nothing catches it.
wsOnMessageText(c, msg) ==
    /\ client = "react"
    /\ sockets[c].readyState = "OPEN"
    /\ IF msg.json
       THEN /\ CanLog(1)
            /\ logs' = addLog(logs, Dispatch(msg).type, Dispatch(msg).message)
            /\ UNCHANGED fault
       ELSE /\ fault' = fault \cup {"onmessage: SyntaxError"}
            /\ UNCHANGED logs
    /\ announced' = Announce(msg, announced)
    /\ UNCHANGED codec
    /\ lastOp' = "ws.onmessage.text"
    /\ UNCHANGED <<client, mounted, isConnected, isRecording, sessionId,
                   textInput, wsRef, mediaRecorderRef, audioContextRef,
                   audioQueueRef, sockets, connects, micRequests, graphs,
                   arrived, started, sounding, wire, sends>>

\* ---------------------------------------------------------------- playback
\* The byte lengths of the binary frames the peer sends: empty, odd, two samples.
FrameBytes == {0, 1, 4}

\* new Int16Array(data) throws a RangeError on an odd byte length, and
\* createBuffer(1, 0, 24000) a NotSupportedError on an empty frame.
Playable(frame) == frame.bytes % 2 = 0 /\ frame.bytes > 0

\* DrainQueue with the loop condition length > 1: the newest frame waits.
RECURSIVE DrainQueue_KeepsLast(_, _)
DrainQueue_KeepsLast(q, s) ==
    IF Len(q) <= 1 THEN [queue |-> q, started |-> s, threw |-> FALSE]
    ELSE IF ~Playable(Head(q)) THEN [queue |-> Tail(q), started |-> s, threw |-> TRUE]
    ELSE DrainQueue_KeepsLast(Tail(q), Append(s, Head(q)))

\* The while loop of playAudioQueue, App.jsx:234-248, on queue q with s the
\* sources started so far: shift, decode, start; a throw ends the loop and
\* leaves the rest of the queue in place.
RECURSIVE DrainQueue(_, _)
DrainQueue(q, s) ==
    IF q = <<>> THEN [queue |-> q, started |-> s, threw |-> FALSE]
    ELSE IF ~Playable(Head(q)) THEN [queue |-> Tail(q), started |-> s, threw |-> TRUE]
    ELSE DrainQueue(Tail(q), Append(s, Head(q)))

\* The sample rate of the buffer playAudioQueue creates for a frame,
\* App.jsx:242: createBuffer(1, float32.length, 24000).
BufferRate(frame) == PlaybackRate

\* playAudioQueue, App.jsx:226-249, called on queue q: it has no await, so it
\* runs to its end inside the caller.
playAudioQueue(q) == DrainQueue(q, <<>>)

\* ws.onmessage with a binary frame, App.jsx:172-175: push, then playAudioQueue.
\* An error thrown inside the async playAudioQueue is an unhandled rejection.
wsOnMessageBinary(c, bytes) ==
    /\ client = "react"
    /\ sockets[c].readyState = "OPEN"
    /\ Len(arrived) < MaxFrames
    /\ LET frame == [id |-> Len(arrived) + 1, bytes |-> bytes, rate |-> announced]
           played == playAudioQueue(Append(audioQueueRef, frame))
       IN  /\ arrived' = Append(arrived, frame)
           /\ audioContextRef' = TRUE
           /\ audioQueueRef' = played.queue
           /\ started' = started \o played.started
           /\ sounding' = sounding \cup {played.started[k].id : k \in 1..Len(played.started)}
           /\ fault' = IF played.threw THEN fault \cup {"playAudioQueue: unhandled rejection"}
                                       ELSE fault
    /\ UNCHANGED <<announced, codec>>
    /\ lastOp' = "ws.onmessage.binary"
    /\ UNCHANGED <<client, mounted, isConnected, isRecording, sessionId, logs,
                   textInput, wsRef, mediaRecorderRef, sockets, connects,
                   micRequests, graphs, wire, sends>>

\* A started source reaches the end of its buffer and falls silent.
sourceEnded(f) ==
    /\ client = "react"
    /\ f \in sounding
    /\ sounding' = sounding \ {f}
    /\ UNCHANGED <<announced, codec>>
    /\ lastOp' = "source.ended"
    /\ UNCHANGED <<client, mounted, isConnected, isRecording, sessionId, logs,
                   textInput, wsRef, mediaRecorderRef, audioContextRef,
                   audioQueueRef, sockets, connects, micRequests, graphs,
                   arrived, started, wire, sends, fault>>

\* ---------------------------------------------------------------- capture
\* startRecording, App.jsx:252-261, from the "Commencer a parler" button (shown
\* while connected and not recording, App.jsx:374-383): asks for the microphone.
startRecording ==
    /\ client = "react" /\ mounted /\ isConnected /\ ~isRecording
    /\ micRequests + Len(graphs) < MaxGraphs
    /\ micRequests' = micRequests + 1
    /\ UNCHANGED <<announced, codec>>
    /\ lastOp' = "startRecording"
    /\ UNCHANGED <<client, mounted, isConnected, isRecording, sessionId, logs,
                   textInput, wsRef, mediaRecorderRef, audioContextRef,
                   audioQueueRef, sockets, connects, graphs, arrived, started,
                   sounding, wire, sends, fault>>

\* startRecordingResumed that sets the recording flag whatever getUserMedia gave.
startRecordingResumed_FlagAnyway(granted) ==
    /\ client = "react"
    /\ micRequests > 0
    /\ CanLog(1)
    /\ micRequests' = micRequests - 1
    /\ isRecording' = SetState(isRecording, TRUE)
    /\ IF granted
       THEN /\ graphs' = Append(graphs, [live |-> TRUE])
            /\ mediaRecorderRef' = Len(graphs) + 1
            /\ logs' = addLog(logs, "system", <<"Enregistrement demarre">>)
       ELSE /\ logs' = addLog(logs, "error", <<"Micro inaccessible: ", "NotAllowedError">>)
            /\ UNCHANGED <<graphs, mediaRecorderRef>>
    /\ UNCHANGED <<announced, codec>>
    /\ lastOp' = IF granted THEN "startRecording.resumed" ELSE "startRecording.failed"
    /\ UNCHANGED <<client, mounted, isConnected, sessionId, textInput, wsRef,
                   audioContextRef, audioQueueRef, sockets, connects, arrived,
                   started, sounding, wire, sends, fault>>

\* startRecording resumed after getUserMedia, App.jsx:263-287: with the
\* microphone it builds the capture graph, keeps it in mediaRecorderRef and
\* sets the recording flag; without it the catch block logs the error.
startRecordingResumed(granted) ==
    /\ client = "react"
    /\ micRequests > 0
    /\ CanLog(1)
    /\ micRequests' = micRequests - 1
    /\ IF granted
       THEN /\ graphs' = Append(graphs, [live |-> TRUE])
            /\ mediaRecorderRef' = Len(graphs) + 1
            /\ isRecording' = SetState(isRecording, TRUE)
            /\ logs' = addLog(logs, "system", <<"Enregistrement demarre">>)
       ELSE /\ logs' = addLog(logs, "error", <<"Micro inaccessible: ", "NotAllowedError">>)
            /\ UNCHANGED <<graphs, mediaRecorderRef, isRecording>>
    /\ UNCHANGED <<announced, codec>>
    /\ lastOp' = IF granted THEN "startRecording.resumed" ELSE "startRecording.failed"
    /\ UNCHANGED <<client, mounted, isConnected, sessionId, textInput, wsRef,
                   audioContextRef, audioQueueRef, sockets, connects, arrived,
                   started, sounding, wire, sends, fault>>

\* The if block of stopRecording, App.jsx:291-298: the graph held in ref is
\* disconnected, its context closed and its tracks stopped.
ReleaseGraph(gs, ref) == IF ref # Null THEN [gs EXCEPT ![ref].live = FALSE] ELSE gs

\* stopRecording that releases the graph but keeps the handle to it.
stopRecording_KeepingHandle ==
    /\ client = "react" /\ mounted /\ isConnected /\ isRecording
    /\ CanLog(1)
    /\ graphs' = ReleaseGraph(graphs, mediaRecorderRef)
    /\ isRecording' = SetState(isRecording, FALSE)
    /\ logs' = addLog(logs, "system", <<"Enregistrement arrete">>)
    /\ UNCHANGED <<announced, codec>>
    /\ lastOp' = "stopRecording"
    /\ UNCHANGED <<client, mounted, isConnected, sessionId, textInput, wsRef,
                   mediaRecorderRef, audioContextRef, audioQueueRef, sockets,
                   connects, micRequests, arrived, started, sounding, wire,
                   sends, fault>>

\* stopRecording, App.jsx:290-301, from the "Arreter" button (shown while
\* connected and recording, App.jsx:384-390).
stopRecording ==
    /\ client = "react" /\ mounted /\ isConnected /\ isRecording
    /\ CanLog(1)
    /\ graphs' = ReleaseGraph(graphs, mediaRecorderRef)
    /\ mediaRecorderRef' = Null
    /\ isRecording' = SetState(isRecording, FALSE)
    /\ logs' = addLog(logs, "system", <<"Enregistrement arrete">>)
    /\ UNCHANGED <<announced, codec>>
    /\ lastOp' = "stopRecording"
    /\ UNCHANGED <<client, mounted, isConnected, sessionId, textInput, wsRef,
                   audioContextRef, audioQueueRef, sockets, connects,
                   micRequests, arrived, started, sounding, wire, sends, fault>>

\* What WebSocket.send does in each ready state: it throws while connecting,
\* transmits while open, and discards silently while closing or closed.
SendOutcome(rs) ==
    CASE rs = "CONNECTING" -> "throws"
      [] rs = "OPEN"       -> "transmits"
      [] OTHER             -> "discards"

\* onaudioprocess that only checks that wsRef holds a socket.
onaudioprocess_NoReadyCheck(g) ==
    /\ client = "react"
    /\ graphs[g].live
    /\ IF wsRef # Null
       THEN /\ Len(wire) < MaxWire
            /\ wire' = Append(wire, [socket |-> wsRef, kind |-> "binary", data |-> <<"pcm16">>])
            /\ sends' = sends \cup {<<"onaudioprocess", sockets[wsRef].readyState>>}
       ELSE UNCHANGED <<wire, sends>>
    /\ UNCHANGED <<announced, codec>>
    /\ lastOp' = "onaudioprocess"
    /\ UNCHANGED <<client, mounted, isConnected, isRecording, sessionId, logs,
                   textInput, wsRef, mediaRecorderRef, audioContextRef,
                   audioQueueRef, sockets, connects, micRequests, graphs,
                   arrived, started, sounding, fault>>

\* processor.onaudioprocess, App.jsx:268-277: a live graph delivers a chunk; it
\* is encoded and sent only if wsRef holds an open socket.
onaudioprocess(g) ==
    /\ client = "react"
    /\ graphs[g].live
    /\ IF wsRef # Null /\ sockets[wsRef].readyState = "OPEN"
       THEN /\ Len(wire) < MaxWire
            /\ wire' = Append(wire, [socket |-> wsRef, kind |-> "binary", data |-> <<"pcm16">>])
            /\ sends' = sends \cup {<<"onaudioprocess", sockets[wsRef].readyState>>}
       ELSE UNCHANGED <<wire, sends>>
    /\ UNCHANGED <<announced, codec>>
    /\ lastOp' = "onaudioprocess"
    /\ UNCHANGED <<client, mounted, isConnected, isRecording, sessionId, logs,
                   textInput, wsRef, mediaRecorderRef, audioContextRef,
                   audioQueueRef, sockets, connects, micRequests, graphs,
                   arrived, started, sounding, fault>>

\* ---------------------------------------------------------------- text input
\* The text field's onChange, App.jsx:402-406, and the TextField bound to
\* _textController, main.dart:288-299 (both shown while connected).
setTextInput(v) ==
    /\ mounted /\ isConnected
    /\ v # textInput
    /\ textInput' = v
    /\ UNCHANGED <<announced, codec>>
    /\ lastOp' = "setTextInput"
    /\ UNCHANGED <<client, mounted, isConnected, isRecording, sessionId, logs,
                   wsRef, mediaRecorderRef, audioContextRef, audioQueueRef,
                   sockets, connects, micRequests, graphs, arrived, started,
                   sounding, wire, sends, fault>>

\* sendText, App.jsx:304-312, from the "Envoyer" button or the Enter key (shown
\* while connected, App.jsx:374-414).  send() throws on a connecting socket,
\* which ends the handler before the log and the clearing of the input.
sendText ==
    /\ client = "react" /\ mounted /\ isConnected
    /\ UNCHANGED <<announced, codec>>
    /\ lastOp' = "sendText"
    /\ IF Trim(textInput) = <<>> \/ wsRef = Null
       THEN UNCHANGED <<wire, sends, fault, logs, textInput>>
       ELSE LET outcome == SendOutcome(sockets[wsRef].readyState)
            IN  /\ sends' = sends \cup {<<"sendText", sockets[wsRef].readyState>>}
                /\ IF outcome = "throws"
                   THEN /\ fault' = fault \cup {"sendText: InvalidStateError"}
                        /\ UNCHANGED <<wire, logs, textInput>>
                   ELSE /\ CanLog(1)
                        /\ outcome = "transmits" => Len(wire) < MaxWire
                        /\ wire' = IF outcome = "transmits"
                                   THEN Append(wire, [socket |-> wsRef, kind |-> "text",
                                                      data |-> <<"input.text">> \o Trim(textInput)])
                                   ELSE wire
                        /\ logs' = addLog(logs, "user", <<"(texte) ">> \o Trim(textInput))
                        /\ textInput' = SetState(textInput, <<>>)
                        /\ UNCHANGED fault
    /\ UNCHANGED <<client, mounted, isConnected, isRecording, sessionId, wsRef,
                   mediaRecorderRef, audioContextRef, audioQueueRef, sockets,
                   connects, micRequests, graphs, arrived, started, sounding>>

\* ---------------------------------------------------------------- teardown
\* The effect cleanup, App.jsx:315-320: disconnect() then stopRecording() as the
\* component unmounts; their state updates and the log entry are dropped.
unmount ==
    /\ client = "react" /\ mounted
    /\ mounted' = FALSE
    /\ sockets' = CloseSocket(sockets, wsRef)
    /\ wsRef' = Null
    /\ graphs' = ReleaseGraph(graphs, mediaRecorderRef)
    /\ mediaRecorderRef' = Null
    /\ UNCHANGED <<announced, codec>>
    /\ lastOp' = IF lastOp = "disconnect" THEN "disconnect+unmount" ELSE "unmount"
    /\ UNCHANGED <<client, isConnected, isRecording, sessionId, logs, textInput,
                   audioContextRef, audioQueueRef, connects, micRequests,
                   arrived, started, sounding, wire, sends, fault>>

\* The effect of App.jsx:315-320 run a second time on mount: React (StrictMode,
\* development builds) runs the cleanup and the setup of every effect once more
\* right after the first mount, with the component's state kept.  The cleanup
\* is disconnect() then stopRecording(), here on the initial state and with the
\* component mounted, so their state updates apply.
remount ==
    /\ client = "react" /\ mounted /\ lastOp = "init"
    /\ CanLog(1)
    /\ sockets' = CloseSocket(sockets, wsRef)
    /\ wsRef' = Null
    /\ isConnected' = SetState(isConnected, FALSE)
    /\ graphs' = ReleaseGraph(graphs, mediaRecorderRef)
    /\ mediaRecorderRef' = Null
    /\ isRecording' = SetState(isRecording, FALSE)
    /\ logs' = addLog(logs, "system", <<"Enregistrement arrete">>)
    /\ UNCHANGED <<announced, codec>>
    /\ lastOp' = "remount"
    /\ UNCHANGED <<client, mounted, sessionId, textInput, audioContextRef,
                   audioQueueRef, connects, micRequests, arrived, started,
                   sounding, wire, sends, fault>>

\* ================================================================ Flutter client
\* _connect, main.dart:84-98: the "Se connecter" button (shown while not
\* connected, main.dart:258-283) posts the handshake request.
_connect ==
    /\ client = "flutter" /\ mounted /\ ~isConnected
    /\ Len(connects) < MaxConnects
    /\ connects' = Append(connects, "post")
    /\ UNCHANGED <<announced, codec>>
    /\ lastOp' = "_connect"
    /\ UNCHANGED <<client, mounted, isConnected, isRecording, sessionId, logs,
                   textInput, wsRef, mediaRecorderRef, audioContextRef,
                   audioQueueRef, sockets, micRequests, graphs, arrived,
                   started, sounding, wire, sends, fault>>

\* The address _connect opens, main.dart:109-111: wsBaseUrl and the session id.
DerivedUrl(sid) == <<"ws://localhost:8765/ws", "/">> \o sid

\* _connect resumed after http.post, main.dart:100-137.  A status other than
\* 200 is logged and ends the call; a throw (network failure, body that is not
\* JSON) is logged by the catch block.  Otherwise the channel is opened and
\* listened to, the client is marked connected at once, and the session is
\* logged; _sessionId! throws when the body carried no session_id, after the
\* channel is kept and the flag set, and the catch block logs that.
_connectResumed(i, r) ==
    /\ client = "flutter" /\ mounted
    /\ connects[i] = "post"
    /\ CanLog(1)
    /\ connects' = [connects EXCEPT ![i] = "done"]
    /\ UNCHANGED <<announced, codec>>
    /\ lastOp' = "_connect.resumed"
    /\ IF r.status = 0
       THEN /\ logs' = _addLog(logs, "error", <<"Connexion echouee: ", "ClientException">>)
            /\ UNCHANGED <<sessionId, sockets, wsRef, isConnected>>
       ELSE IF r.status # 200
       THEN /\ logs' = _addLog(logs, "error", <<"Erreur HTTP: ", StatusText(r.status)>>)
            /\ UNCHANGED <<sessionId, sockets, wsRef, isConnected>>
       ELSE IF r.body = "malformed"
       THEN /\ logs' = _addLog(logs, "error", <<"Connexion echouee: ", "FormatException">>)
            /\ UNCHANGED <<sessionId, sockets, wsRef, isConnected>>
       ELSE LET sid == SessionIdIn(i, r.body)
            IN  /\ sessionId' = sid
                /\ sockets' = Append(sockets, NewSocket(DerivedUrl(sid), sid))
                /\ wsRef' = Len(sockets) + 1
                /\ isConnected' = TRUE
                /\ logs' = IF sid = Undefined
                           THEN _addLog(logs, "error", <<"Connexion echouee: ", "Null check operator">>)
                           ELSE _addLog(logs, "system",
                                        <<"Connecte - session: ">> \o Slice(sid, 8) \o <<"...">>)
    /\ UNCHANGED <<client, mounted, isRecording, textInput, mediaRecorderRef,
                   audioContextRef, audioQueueRef, micRequests, graphs,
                   arrived, started, sounding, wire, sends, fault>>

\* The channel's connection is established: nothing listens for it; the frames
\* added to the sink meanwhile go out.
channelReady(c) ==
    /\ client = "flutter" /\ mounted
    /\ sockets[c].readyState = "CONNECTING"
    /\ sockets' = [sockets EXCEPT ![c].readyState = "OPEN", ![c].opened = TRUE,
                                  ![c].buffered = <<>>]
    /\ wire' = wire \o sockets[c].buffered
    /\ UNCHANGED <<announced, codec>>
    /\ lastOp' = "channel.ready"
    /\ UNCHANGED <<client, mounted, isConnected, isRecording, sessionId, logs,
                   textInput, wsRef, mediaRecorderRef, audioContextRef,
                   audioQueueRef, connects, micRequests, graphs, arrived,
                   started, sounding, sends, fault>>

\* The stream's onError, main.dart:127-130, as a function of the log.
_onError(l) == _addLog(l, "error", <<"Erreur: ", "WebSocketChannelException">>)

\* The stream's onDone, main.dart:123-126, as a function of the log.
_onDone(l) == _addLog(l, "system", <<"Deconnecte">>)

\* The channel's stream ends: the peer closes, the local close completes, or the
\* connection fails (the error event, then done).  Frames still buffered are lost.
_streamClosed(c, withError) ==
    /\ client = "flutter" /\ mounted
    /\ sockets[c].readyState # "CLOSED"
    /\ ~sockets[c].opened => withError
    /\ CanLog(IF withError THEN 2 ELSE 1)
    /\ sockets' = [sockets EXCEPT ![c].readyState = "CLOSED", ![c].buffered = <<>>]
    /\ isConnected' = FALSE
    /\ logs' = _onDone(IF withError THEN _onError(logs) ELSE logs)
    /\ UNCHANGED <<announced, codec>>
    /\ lastOp' = IF withError THEN "stream.onError+onDone" ELSE "stream.onDone"
    /\ UNCHANGED <<client, mounted, isRecording, sessionId, textInput, wsRef,
                   mediaRecorderRef, audioContextRef, audioQueueRef, connects,
                   micRequests, graphs, arrived, started, sounding, wire,
                   sends, fault>>

\* The stream's data callback with a String, main.dart:115-116, and
\* _handleJsonMessage, main.dart:151-174: jsonDecode throws a FormatException
\* on text that is not JSON, and nothing catches it.
_onMessageText(c, msg) ==
    /\ client = "flutter" /\ mounted
    /\ sockets[c].readyState = "OPEN"
    /\ IF msg.json
       THEN /\ CanLog(1)
            /\ logs' = _addLog(logs, Dispatch(msg).type, Dispatch(msg).message)
            /\ UNCHANGED fault
       ELSE /\ fault' = fault \cup {"listen: FormatException"}
            /\ UNCHANGED logs
    /\ announced' = Announce(msg, announced)
    /\ UNCHANGED codec
    /\ lastOp' = "stream.onMessage.text"
    /\ UNCHANGED <<client, mounted, isConnected, isRecording, sessionId,
                   textInput, wsRef, mediaRecorderRef, audioContextRef,
                   audioQueueRef, sockets, connects, micRequests, graphs,
                   arrived, started, sounding, wire, sends>>

\* The stream's data callback with bytes, main.dart:117-121: logged, not played.
_onMessageBinary(c, bytes) ==
    /\ client = "flutter" /\ mounted
    /\ sockets[c].readyState = "OPEN"
    /\ Len(arrived) < MaxFrames
    /\ CanLog(1)
    /\ arrived' = Append(arrived, [id |-> Len(arrived) + 1, bytes |-> bytes,
                                   rate |-> announced])
    /\ logs' = _addLog(logs, "audio", <<"Audio recu (", "n", " octets)">>)
    /\ UNCHANGED <<announced, codec>>
    /\ lastOp' = "stream.onMessage.binary"
    /\ UNCHANGED <<client, mounted, isConnected, isRecording, sessionId,
                   textInput, wsRef, mediaRecorderRef, audioContextRef,
                   audioQueueRef, sockets, connects, micRequests, graphs,
                   started, sounding, wire, sends, fault>>

\* _disconnect, main.dart:140-147, as a change of the sockets.
_disconnectSockets == CloseSocket(sockets, wsRef)

\* _disconnect, main.dart:140-147, from the "Quitter" button (shown while
\* connected, main.dart:288-311).
_disconnect ==
    /\ client = "flutter" /\ mounted /\ isConnected
    /\ sockets' = _disconnectSockets
    /\ wsRef' = Null
    /\ isConnected' = FALSE
    /\ sessionId' = Undefined
    /\ UNCHANGED <<announced, codec>>
    /\ lastOp' = "_disconnect"
    /\ UNCHANGED <<client, mounted, isRecording, logs, textInput,
                   mediaRecorderRef, audioContextRef, audioQueueRef, connects,
                   micRequests, graphs, arrived, started, sounding, wire,
                   sends, fault>>

\* dispose, main.dart:72-80: _disconnect(), then the State is defunct; what its
\* callbacks do after that is not modelled.
dispose ==
    /\ client = "flutter" /\ mounted
    /\ mounted' = FALSE
    /\ sockets' = _disconnectSockets
    /\ wsRef' = Null
    /\ isConnected' = FALSE
    /\ sessionId' = Undefined
    /\ UNCHANGED <<announced, codec>>
    /\ lastOp' = IF lastOp = "_disconnect" THEN "_disconnect+dispose" ELSE "dispose"
    /\ UNCHANGED <<client, isRecording, logs, textInput, mediaRecorderRef,
                   audioContextRef, audioQueueRef, connects, micRequests,
                   graphs, arrived, started, sounding, wire, sends, fault>>

\* _sendText, main.dart:178-189, from the "Envoyer" button or the field's
\* onSubmitted (shown while connected, main.dart:288-306).  The sink keeps a
\* frame added before the connection is ready, sends it on an open channel and
\* drops it once the stream is done.
_sendText ==
    /\ client = "flutter" /\ mounted /\ isConnected
    /\ UNCHANGED <<announced, codec>>
    /\ lastOp' = "_sendText"
    /\ IF Trim(textInput) = <<>> \/ wsRef = Null
       THEN UNCHANGED <<wire, sends, logs, textInput, sockets>>
       ELSE LET rs == sockets[wsRef].readyState
                frame == [socket |-> wsRef, kind |-> "text",
                          data |-> <<"input.text">> \o Trim(textInput)]
            IN  /\ CanLog(1)
                /\ sends' = sends \cup {<<"_sendText", rs>>}
                /\ rs \in {"OPEN", "CONNECTING"} =>
                       Len(wire) + Len(sockets[wsRef].buffered) < MaxWire
                /\ wire' = IF rs = "OPEN" THEN Append(wire, frame) ELSE wire
                /\ sockets' = IF rs = "CONNECTING"
                              THEN [sockets EXCEPT ![wsRef].buffered = Append(@, frame)]
                              ELSE sockets
                /\ logs' = _addLog(logs, "user", <<"(texte) ">> \o Trim(textInput))
                /\ textInput' = <<>>
    /\ UNCHANGED <<client, mounted, isConnected, isRecording, sessionId, wsRef,
                   mediaRecorderRef, audioContextRef, audioQueueRef, connects,
                   micRequests, graphs, arrived, started, sounding, fault>>

\* ---------------------------------------------------------------- PCM16 codec
\* A sample is a fraction num/den, or NaN.  The captured samples explored are
\* the multiples of 1/32768 from -MaxInput/32768 to MaxInput/32768, and NaN.
Fraction(n, d) == [nan |-> FALSE, num |-> n, den |-> d]
NaN == [nan |-> TRUE, num |-> 0, den |-> 1]
Samples == {Fraction(n, DecodeScale) : n \in -MaxInput..MaxInput} \cup {NaN}

\* Math.min(1, x) and Math.max(-1, x): NaN if x is NaN.
MathMin1(x) == IF x.nan THEN x ELSE IF x.num > x.den THEN Fraction(1, 1) ELSE x
MathMax1(x) == IF x.nan THEN x ELSE IF x.num < -x.den THEN Fraction(-1, 1) ELSE x

\* x * 32767.
Scale(x) == IF x.nan THEN x ELSE Fraction(x.num * EncodeScale, x.den)

\* The integer part of a fraction, towards zero.
Truncate(x) == IF x.num >= 0 THEN x.num \div x.den ELSE -((-x.num) \div x.den)

\* The conversion of a number stored into an Int16Array element: NaN gives 0,
\* otherwise the integer part modulo 2^16, read as a signed 16-bit integer.
ToInt16(x) == IF x.nan THEN 0 ELSE ((Truncate(x) + 32768) % 65536) - 32768

\* The two bytes of a signed 16-bit integer in the buffer, low byte first.
Int16Bytes(v) == <<((v + 65536) % 65536) % 256, ((v + 65536) % 65536) \div 256>>

\* new Uint16Array(data)[i]: the two bytes read as an unsigned integer.
Uint16Array(b) == b[1] + 256 * b[2]

\* new Int16Array(data)[i], App.jsx:236: the two bytes read as a signed integer.
Int16Array(b) == IF b[1] + 256 * b[2] >= 32768 THEN b[1] + 256 * b[2] - 65536
                                                ELSE b[1] + 256 * b[2]

\* Encode without the clamp.
Encode_Unclamped(x) == Scale(x)

\* The right-hand side of App.jsx:273: Math.max(-1, Math.min(1, x)) * 32767.
Encode(x) == Scale(MathMax1(MathMin1(x)))

\* Decode that reads the bytes as unsigned.
Decode_Unsigned(b) == Fraction(Uint16Array(b), DecodeScale)

\* App.jsx:236-239: int16[i] / 32768 on the bytes received.
Decode(b) == Fraction(Int16Array(b), DecodeScale)

\* The loop body of onaudioprocess, App.jsx:272-274, on one sample: the
\* encoded number is stored into int16[i], whose bytes are sent.
encodeSample ==
    /\ sampleIn # NoSample /\ pcm16 = <<>>
    /\ scaled' = Encode(sampleIn)
    /\ pcm16' = Int16Bytes(ToInt16(Encode(sampleIn)))
    /\ UNCHANGED <<sampleIn, sampleOut, announced>>
    /\ lastOp' = "encode"
    /\ UNCHANGED <<client, mounted, isConnected, isRecording, sessionId, logs,
                   textInput, wsRef, mediaRecorderRef, audioContextRef,
                   audioQueueRef, sockets, connects, micRequests, graphs,
                   arrived, started, sounding, wire, sends, fault>>

\* The loop body of playAudioQueue, App.jsx:236-240, on one sample of a frame
\* that carries the bytes back.
decodeSample ==
    /\ pcm16 # <<>> /\ sampleOut = NoSample
    /\ sampleOut' = Decode(pcm16)
    /\ UNCHANGED <<sampleIn, scaled, pcm16, announced>>
    /\ lastOp' = "decode"
    /\ UNCHANGED <<client, mounted, isConnected, isRecording, sessionId, logs,
                   textInput, wsRef, mediaRecorderRef, audioContextRef,
                   audioQueueRef, sockets, connects, micRequests, graphs,
                   arrived, started, sounding, wire, sends, fault>>

\* A captured sample in the React client.
InitCodec ==
    /\ client = "react"
    /\ Fresh
    /\ sampleIn \in Samples
    /\ scaled = NoSample /\ pcm16 = <<>> /\ sampleOut = NoSample

CodecNext ==
    \/ encodeSample
    \/ decodeSample

\* ---------------------------------------------------------------- specifications
\* The successful handshake answers (status 200 with a JSON body).
OkResponses == {r \in Responses : r.status = 200 /\ r.body # "malformed"}

\* Session lifecycle, capture and text input, of either client.
LifecycleNext ==
    \/ connect
    \/ \E i \in 1..Len(connects), r \in Responses : connectResumed(i, r)
    \/ \E c \in SocketIds : wsOnOpen(c)
    \/ \E c \in SocketIds, withError \in BOOLEAN : wsClosed(c, withError)
    \/ disconnect
    \/ startRecording
    \/ \E granted \in BOOLEAN : startRecordingResumed(granted)
    \/ stopRecording
    \/ \E g \in 1..Len(graphs) : onaudioprocess(g)
    \/ sendText
    \/ unmount
    \/ remount
    \/ _connect
    \/ \E i \in 1..Len(connects), r \in Responses : _connectResumed(i, r)
    \/ \E c \in SocketIds : channelReady(c)
    \/ \E c \in SocketIds, withError \in BOOLEAN : _streamClosed(c, withError)
    \/ _disconnect
    \/ _sendText
    \/ dispose
    \/ \E v \in TextInputs : setTextInput(v)

\* A session being set up, opened and closed, of either client.
SessionNext ==
    \/ connect
    \/ \E i \in 1..Len(connects), r \in OkResponses : connectResumed(i, r)
    \/ \E c \in SocketIds : wsOnOpen(c)
    \/ \E c \in SocketIds, withError \in BOOLEAN : wsClosed(c, withError)
    \/ disconnect
    \/ unmount
    \/ _connect
    \/ \E i \in 1..Len(connects), r \in OkResponses : _connectResumed(i, r)
    \/ \E c \in SocketIds : channelReady(c)
    \/ \E c \in SocketIds, withError \in BOOLEAN : _streamClosed(c, withError)
    \/ _disconnect
    \/ dispose

\* Inbound textual frames on the connections of a session.
DispatchNext ==
    \/ SessionNext
    \/ \E c \in SocketIds, msg \in TextFrames : wsOnMessageText(c, msg)
    \/ \E c \in SocketIds, msg \in TextFrames : _onMessageText(c, msg)

\* Inbound binary frames on the connections of a session.
PlaybackNext ==
    \/ SessionNext
    \/ \E c \in SocketIds, bytes \in FrameBytes : wsOnMessageBinary(c, bytes)
    \/ \E f \in sounding : sourceEnded(f)
    \/ \E c \in SocketIds, bytes \in FrameBytes : _onMessageBinary(c, bytes)

\* The number of the latest log event: the k-th call of addLog / _addLog is
\* given the message <<k>>, so that every entry tells which event it records.
EventNo(l) == IF l = <<>> THEN 0 ELSE l[Len(l)].message[1]

\* Some callback of the mounted component logs an event: a call of addLog,
\* App.jsx:139-142, or of _addLog, main.dart:193-201.
logEvent ==
    /\ mounted
    /\ EventNo(logs) < MaxLogEvents
    /\ logs' = IF client = "react"
               THEN addLog(logs, "system", <<EventNo(logs) + 1>>)
               ELSE _addLog(logs, "system", <<EventNo(logs) + 1>>)
    /\ UNCHANGED <<announced, codec>>
    /\ lastOp' = "addLog"
    /\ UNCHANGED <<client, mounted, isConnected, isRecording, sessionId,
                   textInput, wsRef, mediaRecorderRef, audioContextRef,
                   audioQueueRef, sockets, connects, micRequests, graphs,
                   arrived, started, sounding, wire, sends, fault>>

\* The event log under a run of log events.
LogNext == logEvent

\* Inbound binary frames among audio.start messages that announce a rate.
RateNext ==
    \/ SessionNext
    \/ \E c \in SocketIds, msg \in AudioStarts : wsOnMessageText(c, msg)
    \/ \E c \in SocketIds, bytes \in FrameBytes : wsOnMessageBinary(c, bytes)

\* A transcription and the response that follows it.
Exchange == {m \in ControlMessages : m.type \in {"transcription", "response.text"}}

\* Inbound textual frames among binary frames and local events.
OrderNext ==
    \/ SessionNext
    \/ \E c \in SocketIds, msg \in Exchange : wsOnMessageText(c, msg)
    \/ \E c \in SocketIds, msg \in Exchange : _onMessageText(c, msg)
    \/ \E c \in SocketIds : wsOnMessageBinary(c, 4)
    \/ \E c \in SocketIds : _onMessageBinary(c, 4)
    \/ \E v \in TextInputs : setTextInput(v)
    \/ sendText
    \/ _sendText
    \/ startRecording
    \/ \E granted \in BOOLEAN : startRecordingResumed(granted)
    \/ stopRecording

Next == LifecycleNext

Spec == Init /\ [][Next]_vars

SpecDispatch == Init /\ [][DispatchNext]_vars

SpecPlayback == Init /\ [][PlaybackNext]_vars

SpecLog == Init /\ [][LogNext]_vars

SpecOrder == Init /\ [][OrderNext]_vars

SpecRate == Init /\ [][RateNext]_vars

SpecCodec == InitCodec /\ [][CodecNext]_vars

\* Sessions and recording up to teardown, and what is still pending after it.
TeardownNext ==
    \/ SessionNext
    \/ startRecording
    \/ \E granted \in BOOLEAN : startRecordingResumed(granted)
    \/ stopRecording

\* The steps that need no user: an awaited answer arrives (fetch / http.post,
\* getUserMedia), a connecting socket opens, a closing handshake completes.
\* The event loop runs each of them once it is due; the peer closing an open
\* connection is not among them.
Continuation ==
    \/ \E i \in 1..Len(connects), r \in OkResponses : connectResumed(i, r)
    \/ \E i \in 1..Len(connects), r \in OkResponses : _connectResumed(i, r)
    \/ \E granted \in BOOLEAN : startRecordingResumed(granted)
    \/ \E c \in SocketIds : wsOnOpen(c)
    \/ \E c \in SocketIds : channelReady(c)
    \/ \E c \in SocketIds, withError \in BOOLEAN :
          sockets[c].readyState = "CLOSING" /\ wsClosed(c, withError)
    \/ \E c \in SocketIds, withError \in BOOLEAN :
          sockets[c].readyState = "CLOSING" /\ _streamClosed(c, withError)

SpecTeardown == Init /\ [][TeardownNext]_vars /\ WF_vars(Continuation)

\* ================================================================ claims
Last(l) == l[Len(l)]

\* l2 is l1 with exactly one entry appended.
OneAppended(l1, l2) == Len(l2) = Len(l1) + 1 /\ SubSeq(l2, 1, Len(l1)) = l1

\* An entry of category system that names session sid by its first characters.
IsSessionCreated(e, sid) ==
    /\ e.type = "system"
    /\ \E k \in 1..Len(e.message) - 7 : SubSeq(e.message, k, k + 7) = SubSeq(sid, 1, 8)

\* Step predicates: socket c opens in this step; a socket is created in it.
Opens(c) == sockets[c].readyState = "CONNECTING" /\ sockets'[c].readyState = "OPEN"
Creates == Len(sockets') = Len(sockets) + 1

C2_EveryFrameStarted ==
    client = "react" => started = arrived /\ audioQueueRef = <<>>

\* C2 as amended: the frames that can be decoded (a positive, even number of
\* bytes) are each started exactly once, in arrival order, and no frame stays
\* queued; a frame that cannot be decoded is dequeued and never started.
C2_PlayableFramesStartedInOrder ==
    client = "react" =>
        /\ started = SelectSeq(arrived, Playable)
        /\ audioQueueRef = <<>>

C2_Witness ==
    /\ client = "react" /\ Len(started) >= 2
    /\ started[1].id < started[2].id
    /\ lastOp = "ws.onmessage.binary"

\* C3: at most one frame is sounding at any moment.
C3_OneFrameSounding == Cardinality(sounding) <= 1

\* The category the contract fixes for each recognized message type.
ClaimedCategory(type) ==
    CASE type = "session.created" -> "system"
      [] type = "transcription"   -> "user"
      [] type = "response.text"   -> "agent"
      [] type = "audio.start"     -> "audio"
      [] type = "audio.end"       -> "audio"
      [] type = "error"           -> "error"

\* Step predicate: the textual frame msg is handled on socket c in this step.
Handles(c, msg) == wsOnMessageText(c, msg) \/ _onMessageText(c, msg)

\* C4: handling a control message of a recognized type appends exactly one
\* entry, of the category fixed for that type: session.created system,
\* transcription user, response.text agent, audio.start and audio.end audio,
\* error error.  (While the component is mounted.)
C4_CategoryFixedByType ==
    [][ \A c \in SocketIds, msg \in ControlMessages :
            (mounted /\ msg.type \in RecognizedTypes /\ Handles(c, msg))
            => /\ OneAppended(logs, logs')
               /\ Last(logs').type = ClaimedCategory(msg.type)
      ]_vars

C4_Witness ==
    /\ lastOp \in {"ws.onmessage.text", "stream.onMessage.text"}
    /\ Len(logs) >= 2
    /\ Last(logs).type = "agent"
    /\ logs[Len(logs) - 1].type = "user"

\* C5: handling a control message whose type is not recognized appends
\* exactly one system entry carrying the raw type, raises no fault and leaves
\* the session as it was.  (While the component is mounted.)
C5_UnknownTypeLoggedAsSystem ==
    [][ \A c \in SocketIds, msg \in ControlMessages :
            (mounted /\ msg.type \notin RecognizedTypes /\ Handles(c, msg))
            => /\ OneAppended(logs, logs')
               /\ Last(logs').type = "system"
               /\ \E k \in 1..Len(Last(logs').message) : Last(logs').message[k] = msg.type
               /\ fault' = fault
               /\ UNCHANGED <<isConnected, wsRef, sockets, sessionId, isRecording>>
      ]_vars

C5_Witness ==
    /\ lastOp \in {"ws.onmessage.text", "stream.onMessage.text"}
    /\ logs # <<>> /\ Last(logs) = Entry("system", <<"[", "ping", "]">>)
    /\ fault = {}

\* The transport held by the state machine is open.
TransportOpen == wsRef # Null /\ sockets[wsRef].readyState = "OPEN"

\* C6: a microphone chunk delivered while no connection is held, or while the
\* held one is connecting, closing or closed, is not transmitted, is not
\* buffered, raises no fault and adds no log entry.
C6_FrameDroppedWhenNotOpen ==
    [][ (lastOp' = "onaudioprocess" /\ ~TransportOpen)
        => /\ wire' = wire
           /\ sends' = sends
           /\ sockets' = sockets
           /\ fault' = fault
           /\ logs' = logs
      ]_vars

C6_Witness ==
    /\ lastOp = "onaudioprocess"
    /\ wsRef # Null /\ sockets[wsRef].readyState = "CLOSED"
    /\ wire = <<>>

\* C7: a send attempted on a connection whose open event has not fired raises
\* no fault.
C7_EarlySendRaisesNoFault == "sendText: InvalidStateError" \notin fault

\* C8: once the close event of a connection has fired, the state machine no
\* longer holds a reference to it.
C8_ReferenceDroppedOnClose ==
    \A c \in SocketIds : sockets[c].readyState = "CLOSED" => wsRef # c

\* C9: after disconnect() returns the client is not recording and no capture
\* graph or microphone stream is live.
C9_DisconnectStopsCapture ==
    lastOp = "disconnect" =>
        /\ ~isRecording
        /\ mediaRecorderRef = Null
        /\ \A g \in 1..Len(graphs) : ~graphs[g].live

\* The close entries in the log, and the connections whose close event fired.
RECURSIVE CloseEntries(_)
CloseEntries(l) ==
    IF l = <<>> THEN 0
    ELSE (IF Head(l).message = <<"Deconnecte">> THEN 1 ELSE 0) + CloseEntries(Tail(l))

ClosedSockets == {c \in SocketIds : sockets[c].readyState = "CLOSED"}

\* C10: a second disconnect() right after a first (the teardown that follows a
\* click on the disconnect button) closes nothing and logs nothing, and leaves
\* the client not connected with no connection held; the log never holds more
\* close entries than connections have closed.
C10_SecondDisconnectChangesNothing ==
    /\ [][ lastOp' \in {"disconnect+unmount", "_disconnect+dispose"}
           => /\ sockets' = sockets
              /\ logs' = logs
              /\ ~isConnected' /\ wsRef' = Null
         ]_vars
    /\ [](CloseEntries(logs) <= Cardinality(ClosedSockets))

C10_Witness ==
    /\ lastOp = "disconnect+unmount"
    /\ ~isConnected /\ wsRef = Null
    /\ \E c \in SocketIds : sockets[c].readyState = "CLOSING"

\* C11: a call of stopRecording while no capture is active (no capture graph is
\* held) changes nothing: not the log, not the recording flag, not the handle,
\* not the graphs, and it raises no fault.
C11_StopWithoutCaptureIsNoOp ==
    [][ (lastOp' \in {"stopRecording", "remount"} /\ mediaRecorderRef = Null)
        => /\ logs' = logs
           /\ isRecording' = isRecording
           /\ mediaRecorderRef' = mediaRecorderRef
           /\ graphs' = graphs
           /\ fault' = fault
      ]_vars

\* A handshake that fails: the network fails, the server answers an error
\* status, or the body cannot be read.
HandshakeFails(r) == r.status \in {0, 500} \/ r.body = "malformed"

\* The connect() invocations whose handshake request has not been answered.
PendingHandshakes == {i \in 1..Len(connects) : connects[i] \in {"fetch", "post"}}

\* Step predicate: the i-th connect() resumes with answer r.
Resumes(i, r) == connectResumed(i, r) \/ _connectResumed(i, r)

\* C12: when the handshake of a connect() fails, that step creates no
\* connection, leaves the connected flag and the held connection as they were
\* (not connected and none when no other connect() has succeeded), appends
\* exactly one error entry, and issues no handshake request: the invocations
\* stay as many and one fewer is pending.  (While the component is mounted.)
C12_FailedHandshakeLeavesIdle ==
    [][ \A i \in 1..Len(connects), r \in Responses :
            (mounted /\ HandshakeFails(r) /\ Resumes(i, r))
            => /\ sockets' = sockets
               /\ wsRef' = wsRef /\ isConnected' = isConnected
               /\ sockets = <<>> => (wsRef' = Null /\ ~isConnected')
               /\ OneAppended(logs, logs') /\ Last(logs').type = "error"
               /\ Len(connects') = Len(connects)
               /\ Cardinality(PendingHandshakes') = Cardinality(PendingHandshakes) - 1
      ]_vars

C12_Witness ==
    /\ lastOp \in {"connect.resumed", "_connect.resumed"}
    /\ sockets = <<>> /\ wsRef = Null /\ ~isConnected
    /\ Len(connects) = 1 /\ PendingHandshakes = {}
    /\ Len(logs) = 1 /\ Last(logs).type = "error"

\* C13: a handshake answered with a status other than 200 opens no connection
\* and appends one error entry.  (While the component is mounted.)
C13_Non200IsFailure ==
    [][ \A i \in 1..Len(connects), r \in Responses :
            (mounted /\ r.status # 200 /\ Resumes(i, r))
            => /\ sockets' = sockets
               /\ OneAppended(logs, logs') /\ Last(logs').type = "error"
      ]_vars

\* The entries of category error in a log.
ErrorEntries(l) == Len(SelectSeq(l, LAMBDA e : e.type = "error"))

\* Step predicate: connection c fails (the transport error event) in this step.
TransportError(c) == wsClosed(c, TRUE) \/ _streamClosed(c, TRUE)

\* C14: a transport error on a connection that is connecting or open leaves
\* the client not connected, adds exactly one error entry (before the close
\* entry), and starts nothing: no handshake request, no connection.  (While the
\* component is mounted.)
C14_TransportErrorClosesWithoutRetry ==
    [][ \A c \in SocketIds :
            (mounted /\ sockets[c].readyState \in {"CONNECTING", "OPEN"} /\ TransportError(c))
            => /\ ~isConnected'
               /\ sockets'[c].readyState = "CLOSED"
               /\ ErrorEntries(logs') = ErrorEntries(logs) + 1
               /\ Len(logs') = Len(logs) + 2
               /\ logs'[Len(logs) + 1].type = "error"
               /\ connects' = connects
               /\ Len(sockets') = Len(sockets)
      ]_vars

C14_Witness ==
    /\ lastOp \in {"ws.onerror+onclose", "stream.onError+onDone"}
    /\ \E c \in SocketIds : sockets[c].opened /\ sockets[c].readyState = "CLOSED"
    /\ ~isConnected
    /\ Len(logs) = 3 /\ logs[2].type = "error"
    /\ PendingHandshakes = {}

\* The input.text frame sendText puts on the held connection.
TextFrame == [socket |-> wsRef, kind |-> "text",
              data |-> <<"input.text">> \o Trim(textInput)]

\* C15: sendText either transmits or does nothing.  When it logs, the trimmed
\* input is not empty, the held connection is open, exactly one frame with the
\* trimmed text goes out, exactly one user entry with that text is appended
\* and the input is cleared; otherwise nothing is sent or kept for sending,
\* nothing is logged and the input is unchanged.
C15_SendTextTransmitsWhatItLogs ==
    [][ lastOp' \in {"sendText", "_sendText"}
        => IF logs' # logs
           THEN /\ Trim(textInput) # <<>>
                /\ TransportOpen
                /\ wire' = Append(wire, TextFrame)
                /\ OneAppended(logs, logs')
                /\ Last(logs') = Entry("user", <<"(texte) ">> \o Trim(textInput))
                /\ textInput' = <<>>
           ELSE /\ wire' = wire
                /\ sockets' = sockets
                /\ textInput' = textInput
      ]_vars

\* C16: after any run of log events the log is no longer than the cap of 100
\* and holds exactly the most recent events, oldest first.
C16_LogHoldsMostRecentUpToCap ==
    /\ Len(logs) <= LogCap
    /\ Len(logs) = (IF EventNo(logs) < LogCap THEN EventNo(logs) ELSE LogCap)
    /\ \A k \in 1..Len(logs) : logs[k].message[1] = EventNo(logs) - Len(logs) + k

\* C17: when startRecording cannot get the microphone, that step appends
\* exactly one error entry, creates no capture graph, leaves the recording flag
\* and the handle as they were (not recording and none when no other capture
\* is running), and leaves the session alone: connected flag, held connection,
\* every connection's state and the session id.  (While the component is mounted.)
C17_MicFailureIsLocal ==
    [][ (mounted /\ lastOp' = "startRecording.failed")
        => /\ OneAppended(logs, logs') /\ Last(logs').type = "error"
           /\ graphs' = graphs
           /\ isRecording' = isRecording /\ mediaRecorderRef' = mediaRecorderRef
           /\ graphs = <<>> => (~isRecording' /\ mediaRecorderRef' = Null)
           /\ UNCHANGED <<isConnected, wsRef, sockets, sessionId>>
           /\ fault' = fault
      ]_vars

C17_Witness ==
    /\ lastOp = "startRecording.failed"
    /\ isConnected /\ TransportOpen
    /\ ~isRecording /\ mediaRecorderRef = Null /\ graphs = <<>>
    /\ Last(logs).type = "error"

\* C18: when an inbound binary frame cannot be decoded, handling it appends
\* one error entry, raises no fault, drops that frame only (nothing stays
\* queued, nothing else is started or lost) and leaves the session open.
C18_PlaybackFailureLogged ==
    [][ \A c \in SocketIds, bytes \in FrameBytes :
            (mounted /\ ~Playable([bytes |-> bytes]) /\ wsOnMessageBinary(c, bytes))
            => /\ OneAppended(logs, logs') /\ Last(logs').type = "error"
               /\ fault' = fault
               /\ started' = started /\ audioQueueRef' = <<>>
               /\ UNCHANGED <<isConnected, wsRef, sockets>>
      ]_vars

\* C19: no handler lets an error escape: no step adds an uncaught fault, and
\* an inbound textual frame that is not JSON appends one error entry.
C19_ErrorsCaughtAndLogged ==
    [][ /\ fault' = fault
        /\ \A c \in SocketIds :
              (mounted /\ Handles(c, NotJson))
              => (OneAppended(logs, logs') /\ Last(logs').type = "error")
      ]_vars

\* The connections that are still opening.
OpeningSockets == {c \in SocketIds : sockets[c].readyState = "CONNECTING"}

\* C20: at most one connect() is under way at any time: handshake requests
\* awaiting their answer and connections still opening number at most one.
C20_OneHandshakeInFlight ==
    Cardinality(PendingHandshakes) + Cardinality(OpeningSockets) <= 1

\* The capture graphs that are producing frames.
LiveGraphs == {g \in 1..Len(graphs) : graphs[g].live}

\* C21: never more than one capture graph is live, and a live graph is the one
\* the handle refers to.
C21_OneCaptureGraph ==
    /\ Cardinality(LiveGraphs) <= 1
    /\ \A g \in LiveGraphs : mounted => mediaRecorderRef = g

\* The integer a sample of the wire stands for.
Stored == Int16Array(pcm16)

\* C22: the number the encoder stores for a captured sample is within the
\* clamped range, [-32767, 32767] for [-1, 1] (NaN stores 0), so the signed
\* 16-bit integer kept is its integer part, in [-32768, 32767], not a wrapped
\* value, and it has the sign of the sample.
C22_EncodeStaysInInt16 ==
    pcm16 # <<>> =>
        /\ Stored >= -32768 /\ Stored <= 32767
        /\ scaled.nan => Stored = 0
        /\ ~scaled.nan =>
              /\ scaled.num <= EncodeScale * scaled.den
              /\ scaled.num >= -EncodeScale * scaled.den
              /\ Stored = Truncate(scaled)
              /\ sampleIn.num > 0 => Stored >= 0
              /\ sampleIn.num < 0 => Stored <= 0

C22_Witness ==
    /\ lastOp = "encode"
    /\ sampleIn = Fraction(MaxInput, DecodeScale)
    /\ Stored = 32767

Abs(n) == IF n < 0 THEN -n ELSE n

\* C23: for every sample x = s/32768 with s in [-32768, 32767], the sample
\* decoded from the bytes encoded for x differs from x by at most 1/32768.
C23_RoundTripWithinOneStep ==
    (sampleOut # NoSample /\ ~sampleIn.nan
        /\ sampleIn.num >= -32768 /\ sampleIn.num <= 32767)
    => /\ ~sampleOut.nan
       /\ sampleOut.den = sampleIn.den
       /\ Abs(sampleOut.num - sampleIn.num) <= sampleIn.den \div DecodeScale

C23_Witness ==
    /\ lastOp = "decode"
    /\ sampleIn = Fraction(-32768, DecodeScale)
    /\ sampleOut = Fraction(-32767, DecodeScale)

\* The rate a frame is due to be played at: the one announced by the latest
\* audio.start received before it, 24000 Hz when none was.
DueRate(frame) == IF frame.rate = Null THEN 24000 ELSE frame.rate

\* C24: every frame started is played at the rate announced by the latest
\* audio.start received before it, or at 24000 Hz when none was announced.
C24_PlayedAtAnnouncedRate ==
    \A k \in 1..Len(started) : BufferRate(started[k]) = DueRate(started[k])

\* C25: every connection was opened to the websocket_url of a handshake
\* response.
C25_OpenedToReturnedEndpoint ==
    \A c \in SocketIds : \E i \in 1..Len(connects) : sockets[c].url = WebsocketUrlIn(i)

\* C26: every connect() issues a handshake request of its own, and a
\* handshake that succeeds creates a new connection, in state connecting,
\* bound to the session id that handshake issued, which no earlier connection
\* has; the new connection is the one held, the earlier connections are left
\* as they are, and the session id kept is the new one.  (While the component
\* is mounted.)
C26_ReconnectIsFresh ==
    [][ /\ lastOp' \in {"connect", "_connect"}
              => /\ Len(connects') = Len(connects) + 1
                 /\ Last(connects') \in {"fetch", "post"}
                 /\ sockets' = sockets
        /\ \A i \in 1..Len(connects), r \in Responses :
              (mounted /\ Resumes(i, r) /\ Creates)
              => /\ SubSeq(sockets', 1, Len(sockets)) = sockets
                 /\ Last(sockets').readyState = "CONNECTING"
                 /\ Last(sockets').sid = SessionIdIn(i, r.body)
                 /\ wsRef' = Len(sockets')
                 /\ sessionId' = Last(sockets').sid
                 /\ \A c \in SocketIds :
                       Last(sockets').sid # Undefined => sockets[c].sid # Last(sockets').sid
      ]_vars

\* A connect() invoked from Closed: the only connection so far was open and
\* is closed, the client is not connected, and the second connect() has just
\* issued its own handshake request.
C26_Witness ==
    /\ lastOp \in {"connect", "_connect"}
    /\ Len(sockets) = 1 /\ sockets[1].opened /\ sockets[1].readyState = "CLOSED"
    /\ ~isConnected
    /\ Len(connects) = 2 /\ PendingHandshakes = {2}

\* C27: the client is marked connected, and the log holds the session entry of
\* a connection, only once the open event of a connection (of that
\* connection) has fired.
C27_ActiveOnlyAfterOpen ==
    /\ isConnected => \E c \in SocketIds : sockets[c].opened
    /\ \A k \in 1..Len(logs), c \in SocketIds :
          (sockets[c].sid # Undefined /\ IsSessionCreated(logs[k], sockets[c].sid))
          => sockets[c].opened

\* l1 is the beginning of l2.
IsPrefix(l1, l2) == Len(l1) <= Len(l2) /\ SubSeq(l2, 1, Len(l1)) = l1

\* C28: control messages are logged in the order received: handling one puts
\* its entry at the end of the log, and no step (binary frame, text sent,
\* recording started or stopped, connection event) moves or removes an entry
\* already there.  (While the component is mounted and below the cap.)
C28_ControlMessagesLoggedInOrder ==
    [][ mounted =>
          /\ IsPrefix(logs, logs')
          /\ \A c \in SocketIds, msg \in Exchange :
                Handles(c, msg) => (OneAppended(logs, logs') /\ Last(logs') = Dispatch(msg))
      ]_vars

C28_Witness ==
    /\ client = "react" /\ lastOp = "ws.onmessage.text"
    /\ Len(logs) = 3
    /\ logs[2].type = "user" /\ logs[3].type = "agent"
    /\ arrived # <<>>
    /\ mediaRecorderRef = Null

\* C29: handling a control message, of any type, leaves the held connection,
\* every connection's state, the connected flag, the recording flag, the
\* capture handle, the playback queue, the session id and the text input as
\* they were.
C29_ControlMessageOnlyLogs ==
    [][ \A c \in SocketIds, msg \in ControlMessages :
            Handles(c, msg)
            => UNCHANGED <<wsRef, sockets, isConnected, isRecording, mediaRecorderRef,
                           audioQueueRef, sessionId, textInput>>
      ]_vars

C29_Witness ==
    /\ lastOp \in {"ws.onmessage.text", "stream.onMessage.text"}
    /\ logs # <<>> /\ Last(logs).type = "error"
    /\ isConnected /\ TransportOpen

\* C30: in every reachable state the connected flag is true only if the
\* connection currently held is open.
C30_ConnectedOnlyIfHeldOpen == isConnected => TransportOpen

\* The second half of C30, as a step property: while the held connection is
\* and stays open, no step turns the connected flag off.
C30_StaleCloseHarmless ==
    [][ (mounted /\ isConnected /\ TransportOpen
         /\ wsRef' = wsRef /\ sockets'[wsRef].readyState = "OPEN")
        => isConnected'
      ]_vars

\* The connections that are open or opening.
LiveSockets == {c \in SocketIds : sockets[c].readyState \in {"CONNECTING", "OPEN"}}

\* C31: every connection that is open or opening is the one the client holds,
\* so that disconnect() can still close it.
C31_NoOrphanedConnection == \A c \in LiveSockets : c = wsRef

\* C32: once the React component's cleanup has run, the client eventually has,
\* and keeps, no open or opening connection and no live capture graph.
C32_TeardownReleasesEverything ==
    [](  (client = "react" /\ ~mounted)
         => <>[](LiveSockets = {} /\ LiveGraphs = {}) )

\* C33: after every completed operation of a mounted client the recording flag
\* is true exactly when a capture handle is held.
C33_FlagMatchesHandle == mounted => (isRecording <=> mediaRecorderRef # Null)

\* Recording again after a stop: the flag and the handle of the second graph.
C33_Witness ==
    /\ mounted /\ lastOp = "startRecording.resumed"
    /\ Len(graphs) = 2 /\ ~graphs[1].live
    /\ isRecording /\ mediaRecorderRef = 2

====
